---- MODULE Spec2Model ----
(***************************************************************************)
(* State-machine model of the ink! ERC-20 contract in src/lib.rs.          *)
(*                                                                         *)
(* The contract storage (struct Erc20) is the three fields total_supply,   *)
(* balances and allowances.  The host environment contributes the caller   *)
(* of each call and the log of emitted events.  Every message is one       *)
(* atomic action (the host runs calls one at a time, to completion); in    *)
(* SpecSteps transfer and transfer_from run statement by statement.        *)
(*                                                                         *)
(* Reading of src/lib.rs where it is not well-formed Rust:                 *)
(*  - balance_of, allowances and transfer end their only expression with   *)
(*    a stray `;` - they are modelled as returning that expression;        *)
(*  - total_supply() is written `*self.total_supply()` - it is modelled    *)
(*    as the read of the field total_supply;                               *)
(*  - transfer_from calls `self.allowance(from, caller)`; the only         *)
(*    allowance query of the source is the message `allowances` of lines   *)
(*    85-87, which looks the pair (owner, spender) up in self.balances.    *)
(*    It is modelled as written: a lookup of a pair key in the balance     *)
(*    map, whose keys are single accounts;                                 *)
(*  - there is no approve message in the source (only its doc comment,     *)
(*    lines 99-101, and the Approval event).  approve is modelled from     *)
(*    the specification.                                                   *)
(***************************************************************************)
EXTENDS Integers, Sequences, FiniteSets, TLC

VARIABLES
    total_supply,   \* Erc20.total_supply
    balances,       \* Erc20.balances   : AccountId -> Balance (partial map)
    allowances,     \* Erc20.allowances : (AccountId, AccountId) -> Balance (partial map)
    events,         \* the host's log of emitted events, oldest first
    initial_supply, \* the argument the constructor was called with
    call,           \* the call that was executed last
    result,         \* what that call returned
    granted,        \* history (SpecHistory): per (owner, spender), the value of
                    \* the owner's most recent approve of the spender (0 if
                    \* there is none)
    spent,          \* history (SpecHistory): per (owner, spender), the total
                    \* value of the spender's successful transfer_from calls
                    \* out of the owner's balance since that approve
    pc,             \* the statement the running call is at ("idle" between
                    \* calls; calls run as a whole but in SpecSteps)
    locals          \* the local values of the running call (SpecSteps)

vars == <<total_supply, balances, allowances, events, initial_supply, call, result,
          granted, spent, pc, locals>>

---------------------------------------------------------------------------
(* Bounds of the model *)

\* Largest value of the type Balance (u128 in the source, scaled down).
MaxBalance == 2

\* Calls are accepted while the event log is shorter than this.
MaxEvents == 3

\* The same, where transfer and transfer_from run statement by statement.
MaxStepEvents == 3

---------------------------------------------------------------------------
(* Types *)

\* Where a sum of Balances does not fit the type and the build has no
\* overflow checks, it wraps modulo Modulus, as unsigned machine integers do.
Modulus == MaxBalance + 1

Balance == 0 .. MaxBalance

\* Account identifiers are byte arrays (AccountId::from([0x01; 32])); one
\* byte of them is kept.
A == <<1>>
B == <<2>>
C == <<3>>

AccountId == {A, B, C}

\* The account that deploys the contract: the default caller of the
\* off-chain environment, AccountId::from([0x01; 32]) (tests::new_works).
Deployers == {A}

\* Option<T>
None == <<>>
Some(x) == <<x>>

\* Result<()> values
Ok == "Ok"
InsufficientBalance == "InsufficientBalance"
InsufficientAllowance == "InsufficientAllowance"

\* The call did not return: it panicked ('attempt to add with overflow')
Panicked == "Panicked"

\* a + b on Balance, as line 129 computes it.  Where the sum fits, it is the
\* sum.  Where it does not, the build decides: without overflow checks the
\* sum wraps (Some of it), with overflow checks the addition panics (None).
add(a, b) ==
    IF a + b <= MaxBalance
    THEN {Some(a + b)}
    ELSE {Some((a + b) % Modulus), None}

\* The events of the contract
Transfer(from, to, value) ==
    [kind |-> "Transfer", from |-> from, to |-> to, value |-> value]

\* A faulty Approval: owner and spender change places
Approval_swapped(owner, spender, value) ==
    [kind |-> "Approval", owner |-> spender, spender |-> owner, value |-> value]

Approval(owner, spender, value) ==
    [kind |-> "Approval", owner |-> owner, spender |-> spender, value |-> value]

---------------------------------------------------------------------------
(* StorageHashMap *)

\* StorageHashMap::new()
EmptyMap == [k \in {} |-> 0]

\* map.get(&key).copied().unwrap_or(0)
get_or_zero(map, key) == IF key \in DOMAIN map THEN map[key] ELSE 0

\* A faulty insert: the value is added to the one already stored
insert_accumulate(map, key, value) ==
    [k \in (DOMAIN map) \cup {key} |->
        IF k = key THEN (IF key \in DOMAIN map THEN map[key] ELSE 0) + value
        ELSE map[k]]

\* map.insert(key, value)
insert(map, key, value) ==
    [k \in (DOMAIN map) \cup {key} |-> IF k = key THEN value ELSE map[k]]

\* Sum of the values stored in a map
RECURSIVE MapSum(_)
MapSum(map) ==
    IF DOMAIN map = {} THEN 0
    ELSE LET k == CHOOSE x \in DOMAIN map : TRUE
         IN  map[k] + MapSum([j \in (DOMAIN map) \ {k} |-> map[j]])

\* The storage of the contract as one value
Self ==
    [total_supply |-> total_supply, balances |-> balances, allowances |-> allowances]

---------------------------------------------------------------------------
(* The contract *)

\* A faulty constructor: the supply is not credited to the caller
new_no_credit(caller, supply) ==
    [self    |-> [total_supply |-> supply,
                  balances     |-> EmptyMap,
                  allowances   |-> EmptyMap],
     emitted |-> <<Transfer(None, Some(caller), supply)>>]

\* A faulty constructor: total_supply is left at its default
new_unset_supply(caller, supply) ==
    [self    |-> [total_supply |-> 0,
                  balances     |-> insert(EmptyMap, caller, supply),
                  allowances   |-> EmptyMap],
     emitted |-> <<Transfer(None, Some(caller), supply)>>]

\* Erc20::new: the storage after construction and the event it emits
new(caller, supply) ==
    [self    |-> [total_supply |-> supply,
                  balances     |-> insert(EmptyMap, caller, supply),
                  allowances   |-> EmptyMap],
     emitted |-> <<Transfer(None, Some(caller), supply)>>]

\* Erc20::total_supply
total_supply_of(self) == self.total_supply

\* Erc20::balance_of
balance_of(self, owner) == get_or_zero(self.balances, owner)

\* Erc20::allowances, called as self.allowance(from, caller) by transfer_from:
\* the pair (owner, spender) is looked up in self.balances
allowance(self, owner, spender) == get_or_zero(self.balances, <<owner, spender>>)

\* The outcomes of a call are a set: one outcome, but where the credit of
\* line 129 overflows, where there is one per build (see add).

\* The credit of transfer_from_to: the storage `debited`, the recipient's
\* balance `to_balance` read from it, and the event to emit after the write.
\* A panic leaves the writes made before it and emits nothing.
credit(debited, to, to_balance, value, event) ==
    { IF sum = None
      THEN [self |-> debited, result |-> Panicked, emitted |-> <<>>]
      ELSE [self    |-> [debited EXCEPT !.balances =
                            insert(debited.balances, to, sum[1])],
            result  |-> Ok,
            emitted |-> <<event>>] : sum \in add(to_balance, value) }

\* A faulty transfer_from_to: the recipient's balance is read before the debit
\* is written
transfer_from_to_stale_credit(self, from, to, value) ==
    LET from_balance == balance_of(self, from)
        to_balance   == balance_of(self, to)
    IN  IF from_balance < value
        THEN {[self |-> self, result |-> InsufficientBalance, emitted |-> <<>>]}
        ELSE LET debited == [self EXCEPT !.balances =
                                insert(self.balances, from, from_balance - value)]
             IN  credit(debited, to, to_balance, value,
                        Transfer(Some(from), Some(to), value))

\* A faulty transfer_from_to: the balance check is missing
transfer_from_to_unchecked(self, from, to, value) ==
    LET from_balance == balance_of(self, from)
        debited      == [self EXCEPT !.balances =
                            insert(self.balances, from, from_balance - value)]
        to_balance   == balance_of(debited, to)
    IN  credit(debited, to, to_balance, value, Transfer(Some(from), Some(to), value))

\* A faulty transfer_from_to: the event is the constructor's, with no sender
transfer_from_to_anonymous(self, from, to, value) ==
    LET from_balance == balance_of(self, from)
    IN  IF from_balance < value
        THEN {[self |-> self, result |-> InsufficientBalance, emitted |-> <<>>]}
        ELSE LET debited    == [self EXCEPT !.balances =
                                    insert(self.balances, from, from_balance - value)]
                 to_balance == balance_of(debited, to)
             IN  credit(debited, to, to_balance, value,
                        Transfer(None, Some(to), value))

\* Erc20::transfer_from_to
transfer_from_to(self, from, to, value) ==
    LET from_balance == balance_of(self, from)
    IN  IF from_balance < value
        THEN {[self |-> self, result |-> InsufficientBalance, emitted |-> <<>>]}
        ELSE LET debited    == [self EXCEPT !.balances =
                                    insert(self.balances, from, from_balance - value)]
                 to_balance == balance_of(debited, to)
             IN  credit(debited, to, to_balance, value,
                        Transfer(Some(from), Some(to), value))

\* Erc20::transfer
transfer(self, caller, to, value) ==
    LET from == caller
    IN  transfer_from_to(self, from, to, value)

\* What transfer_from does with an outcome of transfer_from_to: `?` hands on
\* an error (and a panic unwinds), and after Ok the allowance is written at
\* `key`
after_transfer(moved, key, allowance_, value) ==
    IF moved.result # Ok
    THEN moved
    ELSE [moved EXCEPT !.self.allowances =
              insert(moved.self.allowances, key, allowance_ - value)]

\* A faulty transfer_from: the allowance check is missing
transfer_from_unchecked(self, caller, from, to, value) ==
    LET allowance_ == allowance(self, from, caller)
    IN  { after_transfer(moved, <<from, caller>>, allowance_, value) :
              moved \in transfer_from_to(self, from, to, value) }

\* A faulty transfer_from: the balance is checked before the allowance
transfer_from_balance_first(self, caller, from, to, value) ==
    LET allowance_ == allowance(self, from, caller)
    IN  { IF moved.result = Ok /\ allowance_ < value
          THEN [self |-> self, result |-> InsufficientAllowance, emitted |-> <<>>]
          ELSE after_transfer(moved, <<from, caller>>, allowance_, value) :
              moved \in transfer_from_to(self, from, to, value) }

\* A faulty transfer_from: the allowance is stored under (caller, from)
transfer_from_swapped_key(self, caller, from, to, value) ==
    LET allowance_ == allowance(self, from, caller)
    IN  IF allowance_ < value
        THEN {[self |-> self, result |-> InsufficientAllowance, emitted |-> <<>>]}
        ELSE { after_transfer(moved, <<caller, from>>, allowance_, value) :
                   moved \in transfer_from_to(self, from, to, value) }

\* Erc20::transfer_from
transfer_from(self, caller, from, to, value) ==
    LET allowance_ == allowance(self, from, caller)
    IN  IF allowance_ < value
        THEN {[self |-> self, result |-> InsufficientAllowance, emitted |-> <<>>]}
        ELSE { after_transfer(moved, <<from, caller>>, allowance_, value) :
                   moved \in transfer_from_to(self, from, to, value) }

\* allowance_of (specification 4.2): the amount stored for the pair
\* (owner, spender) in the allowance map, or 0
allowance_of(self, owner, spender) == get_or_zero(self.allowances, <<owner, spender>>)

\* approve (specification 4.3; the source has only its doc comment):
\* set_allowance(caller, spender, value), then one Approval event
approve(self, caller, spender, value) ==
    [self    |-> [self EXCEPT !.allowances =
                      insert(self.allowances, <<caller, spender>>, value)],
     result  |-> Ok,
     emitted |-> <<Approval(caller, spender, value)>>]

---------------------------------------------------------------------------
(* The state machine *)

\* The host accepts a call while the log has room.  A run is followed up to
\* its first failing call.  No call reads `call` or `result`, so the calls
\* that can follow a failing call lead to the states the same calls lead to
\* when made instead of it, as long as a failing call leaves the storage and
\* the log alone, which the properties below compare on the failing step
\* itself.  (Without `result = Ok` the reachable states are the same.)
Accepting == pc = "idle" /\ Len(events) < MaxEvents /\ result = Ok

\* The pairs (owner, spender)
Pairs == AccountId \X AccountId

\* No history is kept / no call is running
Nothing == <<>>

\* The effect of a completed call on the state
Apply(outcome) ==
    /\ total_supply' = outcome.self.total_supply
    /\ balances'     = outcome.self.balances
    /\ allowances'   = outcome.self.allowances
    /\ events'       = events \o outcome.emitted
    /\ result'       = outcome.result
    /\ UNCHANGED initial_supply

\* The contract as its constructor leaves it
InitContract ==
    \E caller \in Deployers, supply \in Balance :
        LET made == new(caller, supply)
        IN  /\ initial_supply = supply
            /\ total_supply = made.self.total_supply
            /\ balances     = made.self.balances
            /\ allowances   = made.self.allowances
            /\ events       = made.emitted
            /\ call   = [op |-> "new", caller |-> caller, from |-> caller,
                         to |-> caller, value |-> supply]
            /\ result = Ok
            /\ pc     = "idle"
            /\ locals = Nothing

Init == InitContract /\ granted = Nothing /\ spent = Nothing

\* The three calls, each run as a whole, once the host has accepted it
TransferCall(caller, to, value) ==
    /\ \E outcome \in transfer(Self, caller, to, value) : Apply(outcome)
    /\ call' = [op |-> "transfer", caller |-> caller, from |-> caller,
                to |-> to, value |-> value]
    /\ UNCHANGED <<pc, locals>>

ApproveCall(caller, spender, value) ==
    /\ Apply(approve(Self, caller, spender, value))
    /\ call' = [op |-> "approve", caller |-> caller, from |-> caller,
                to |-> spender, value |-> value]
    /\ UNCHANGED <<pc, locals>>

TransferFromCall(caller, from, to, value) ==
    /\ \E outcome \in transfer_from(Self, caller, from, to, value) : Apply(outcome)
    /\ call' = [op |-> "transfer_from", caller |-> caller, from |-> from,
                to |-> to, value |-> value]
    /\ UNCHANGED <<pc, locals>>

DoTransfer ==
    /\ Accepting
    /\ \E caller \in AccountId, to \in AccountId, value \in Balance :
            TransferCall(caller, to, value) /\ UNCHANGED <<granted, spent>>

DoApprove ==
    /\ Accepting
    /\ \E caller \in AccountId, spender \in AccountId, value \in Balance :
            ApproveCall(caller, spender, value) /\ UNCHANGED <<granted, spent>>

DoTransferFrom ==
    /\ Accepting
    /\ \E caller \in AccountId, from \in AccountId, to \in AccountId, value \in Balance :
            TransferFromCall(caller, from, to, value) /\ UNCHANGED <<granted, spent>>

Next == DoTransfer \/ DoApprove \/ DoTransferFrom

Spec == Init /\ [][Next]_vars

---------------------------------------------------------------------------
(* The same calls, with the history of approvals and delegated spending *)

InitHistory ==
    /\ InitContract
    /\ granted = [p \in Pairs |-> 0]
    /\ spent   = [p \in Pairs |-> 0]

HistTransfer ==
    /\ Accepting
    /\ \E caller \in AccountId, to \in AccountId, value \in Balance :
            TransferCall(caller, to, value) /\ UNCHANGED <<granted, spent>>

HistApprove ==
    /\ Accepting
    /\ \E caller \in AccountId, spender \in AccountId, value \in Balance :
            /\ ApproveCall(caller, spender, value)
            /\ granted' = [granted EXCEPT ![<<caller, spender>>] = value]
            /\ spent'   = [spent EXCEPT ![<<caller, spender>>] = 0]

HistTransferFrom ==
    /\ Accepting
    /\ \E caller \in AccountId, from \in AccountId, to \in AccountId, value \in Balance :
            /\ TransferFromCall(caller, from, to, value)
            /\ spent' = IF result' = Ok
                        THEN [spent EXCEPT ![<<from, caller>>] = @ + value]
                        ELSE spent
            /\ UNCHANGED granted

NextHistory == HistTransfer \/ HistApprove \/ HistTransferFrom

SpecHistory == InitHistory /\ [][NextHistory]_vars

---------------------------------------------------------------------------
(* transfer and transfer_from, statement by statement *)

\* The storage and the log, as a call finds them
Snapshot ==
    [total_supply |-> total_supply, balances |-> balances,
     allowances |-> allowances, events |-> events]

\* A faulty order: the allowance is decremented right after its check,
\* before transfer_from_to is called
next_pc_decrement_first(at, passed) ==
    CASE at = "check_allowance" -> IF passed THEN "decrement" ELSE "idle"
      [] at = "decrement"       -> "check_balance"
      [] at = "check_balance"   -> IF passed THEN "debit" ELSE "idle"
      [] at = "debit"           -> "credit"
      [] at = "credit"          -> "emit"
      [] at = "emit"            -> "idle"

\* The statement that follows statement `at` in transfer_from (lines 104-110)
\* and in the transfer_from_to it calls (lines 123-135); `passed` is the
\* outcome of the check, where `at` is one
next_pc(at, passed) ==
    CASE at = "check_allowance" -> IF passed THEN "check_balance" ELSE "idle"
      [] at = "check_balance"   -> IF passed THEN "debit" ELSE "idle"
      [] at = "debit"           -> "credit"
      [] at = "credit"          -> "emit"
      [] at = "emit"            -> "decrement"
      [] at = "decrement"       -> "idle"

StepAccepting == pc = "idle" /\ Len(events) < MaxStepEvents /\ result = Ok

\* The call goes on at `next`, or returns Ok when `next` is "idle"
Continue(next) ==
    /\ pc' = next
    /\ result' = IF next = "idle" THEN Ok ELSE result
    /\ UNCHANGED <<total_supply, initial_supply, call, granted, spent>>

\* The call returns the error, or ends in the panic
Return(error) ==
    /\ pc' = "idle"
    /\ result' = error
    /\ UNCHANGED <<total_supply, initial_supply, call, granted, spent>>

\* approve, as in DoApprove
StepApprove ==
    /\ StepAccepting
    /\ \E caller \in AccountId, spender \in AccountId, value \in Balance :
        /\ Apply(approve(Self, caller, spender, value))
        /\ call' = [op |-> "approve", caller |-> caller, from |-> caller,
                    to |-> spender, value |-> value]
        /\ UNCHANGED <<granted, spent, pc, locals>>

\* The host dispatches transfer (lines 94-96), which calls transfer_from_to
\* with the caller as `from`
BeginTransfer ==
    /\ StepAccepting
    /\ \E caller \in AccountId, to \in AccountId, value \in Balance :
        /\ call' = [op |-> "transfer", caller |-> caller, from |-> caller,
                    to |-> to, value |-> value]
        /\ result' = "Running"
        /\ pc' = "check_balance"
        /\ locals' = [allowance_ |-> 0, from_balance |-> 0, to_balance |-> 0,
                      start |-> Snapshot, done |-> <<>>]
        /\ UNCHANGED <<total_supply, balances, allowances, events, initial_supply,
                       granted, spent>>

\* The host dispatches transfer_from (lines 102-103)
BeginTransferFrom ==
    /\ StepAccepting
    /\ \E caller \in AccountId, from \in AccountId, to \in AccountId, value \in Balance :
        /\ call' = [op |-> "transfer_from", caller |-> caller, from |-> from,
                    to |-> to, value |-> value]
        /\ result' = "Running"
        /\ pc' = "check_allowance"
        /\ locals' = [allowance_ |-> 0, from_balance |-> 0, to_balance |-> 0,
                      start |-> Snapshot, done |-> <<>>]
        /\ UNCHANGED <<total_supply, balances, allowances, events, initial_supply,
                       granted, spent>>

\* let allowance = self.allowance(from, caller); if allowance < value { return Err }
CheckAllowance ==
    /\ pc = "check_allowance"
    /\ LET allowance_ == allowance(Self, call.from, call.caller)
           passed     == ~(allowance_ < call.value)
       IN  /\ locals' = [locals EXCEPT !.allowance_ = allowance_]
           /\ IF passed THEN Continue(next_pc(pc, TRUE))
                        ELSE Return(InsufficientAllowance)
    /\ UNCHANGED <<balances, allowances, events>>

\* let from_balance = self.balance_of(from); if from_balance < value { return Err }
CheckBalance ==
    /\ pc = "check_balance"
    /\ LET from_balance == balance_of(Self, call.from)
           passed       == ~(from_balance < call.value)
       IN  /\ locals' = [locals EXCEPT !.from_balance = from_balance]
           /\ IF passed THEN Continue(next_pc(pc, TRUE))
                        ELSE Return(InsufficientBalance)
    /\ UNCHANGED <<balances, allowances, events>>

\* self.balances.insert(from, from_balance - value)
Debit ==
    /\ pc = "debit"
    /\ balances' = insert(balances, call.from, locals.from_balance - call.value)
    /\ locals' = [locals EXCEPT !.done = Append(@, "debit")]
    /\ Continue(next_pc(pc, TRUE))
    /\ UNCHANGED <<allowances, events>>

\* let to_balance = self.balance_of(to); self.balances.insert(to, to_balance + value)
Credit ==
    /\ pc = "credit"
    /\ LET to_balance == balance_of(Self, call.to)
       IN  \E sum \in add(to_balance, call.value) :
               IF sum = None
               THEN /\ locals' = [locals EXCEPT !.to_balance = to_balance]
                    /\ Return(Panicked)
                    /\ UNCHANGED balances
               ELSE /\ balances' = insert(balances, call.to, sum[1])
                    /\ locals' = [locals EXCEPT !.to_balance = to_balance,
                                                !.done = Append(@, "credit")]
                    /\ Continue(next_pc(pc, TRUE))
    /\ UNCHANGED <<allowances, events>>

\* self.env().emit_event(Transfer { from: Some(from), to: Some(to), value });
\* transfer_from_to returns Ok, and with it transfer (line 96)
Emit ==
    /\ pc = "emit"
    /\ events' = Append(events, Transfer(Some(call.from), Some(call.to), call.value))
    /\ locals' = [locals EXCEPT !.done = Append(@, "emit")]
    /\ Continue(IF call.op = "transfer" THEN "idle" ELSE next_pc(pc, TRUE))
    /\ UNCHANGED <<balances, allowances>>

\* self.allowances.insert((from, caller), allowance - value)
Decrement ==
    /\ pc = "decrement"
    /\ allowances' = insert(allowances, <<call.from, call.caller>>,
                            locals.allowance_ - call.value)
    /\ locals' = [locals EXCEPT !.done = Append(@, "allowance")]
    /\ Continue(next_pc(pc, TRUE))
    /\ UNCHANGED <<balances, events>>

StepNext ==
    \/ StepApprove
    \/ BeginTransfer
    \/ BeginTransferFrom
    \/ CheckAllowance
    \/ CheckBalance
    \/ Debit
    \/ Credit
    \/ Emit
    \/ Decrement

SpecSteps == Init /\ [][StepNext]_vars

\* A call that has run statement by statement ends as the whole call does
StepsMatchCalls ==
    (call.op \in {"transfer", "transfer_from"} /\ pc = "idle") =>
        LET st     == locals.start
            stself == [total_supply |-> st.total_supply, balances |-> st.balances,
                       allowances |-> st.allowances]
            outs   == IF call.op = "transfer"
                      THEN transfer(stself, call.caller, call.to, call.value)
                      ELSE transfer_from(stself, call.caller, call.from, call.to,
                                         call.value)
        IN  \E out \in outs :
                /\ result = out.result
                /\ Self = out.self
                /\ events = st.events \o out.emitted

---------------------------------------------------------------------------
(* Properties *)

\* The storage after the step
SelfNext ==
    [total_supply |-> total_supply', balances |-> balances', allowances |-> allowances']

\* Sum of balance_of(a) over a set of accounts
RECURSIVE SumBalances(_, _)
SumBalances(self, accounts) ==
    IF accounts = {} THEN 0
    ELSE LET a == CHOOSE x \in accounts : TRUE
         IN  balance_of(self, a) + SumBalances(self, accounts \ {a})

\* The step leaves the storage and the log as they were
NothingChanged ==
    /\ total_supply' = total_supply
    /\ balances'     = balances
    /\ allowances'   = allowances
    /\ events'       = events

\* C1 - Conservation: in every reachable state the sum of balance_of(a) over
\* all accounts equals total_supply, which equals the initial_supply given at
\* construction.
C1_Conservation ==
    /\ SumBalances(Self, AccountId) = total_supply_of(Self)
    /\ MapSum(balances) = total_supply_of(Self)
    /\ total_supply_of(Self) = initial_supply

\* C1 witness: value has moved between two different accounts, and the sender
\* kept some.
C1_Witness ==
    /\ call.op = "transfer" /\ result = Ok
    /\ call.caller # call.to /\ call.value > 0
    /\ balance_of(Self, call.caller) > 0
    /\ balance_of(Self, call.to) = call.value

\* C2 - a transfer of more than the caller's balance returns
\* InsufficientBalance, changes no balance and no allowance and emits no
\* event; and no balance is ever negative.
C2_DebitNeverBeyondBalance ==
    /\ [][(call'.op = "transfer" /\ call'.value > balance_of(Self, call'.caller))
            => (result' = InsufficientBalance /\ NothingChanged)]_vars
    /\ [](\A a \in AccountId : balance_of(Self, a) >= 0)

\* C2 witness: a transfer of more than the caller holds has been refused.
C2_Witness ==
    /\ call.op = "transfer" /\ result = InsufficientBalance
    /\ call.value > balance_of(Self, call.caller)
    /\ balance_of(Self, call.caller) > 0

\* C3 - as claimed: transfer_from with allowance_of(from, caller) >= value and
\* balance_of(from) < value returns InsufficientBalance and changes nothing.
C3_AsClaimed ==
    [][(/\ call'.op = "transfer_from"
        /\ allowance_of(Self, call'.from, call'.caller) >= call'.value
        /\ balance_of(Self, call'.from) < call'.value)
            => (result' = InsufficientBalance /\ NothingChanged)]_vars

\* C4 - transfer_from with allowance_of(from, caller) < value returns
\* InsufficientAllowance, changes no balance and no allowance and emits no
\* event; in particular for a pair that was never approved and value > 0.
C4_InsufficientAllowance ==
    [][(/\ call'.op = "transfer_from"
        /\ \/ allowance_of(Self, call'.from, call'.caller) < call'.value
           \/ (<<call'.from, call'.caller>> \notin DOMAIN allowances /\ call'.value > 0))
            => (result' = InsufficientAllowance /\ NothingChanged)]_vars

\* C4 witness: a spender who was never approved has been refused a transfer
\* the owner's balance would have covered.
C4_Witness ==
    /\ call.op = "transfer_from" /\ result = InsufficientAllowance
    /\ <<call.from, call.caller>> \notin DOMAIN allowances
    /\ call.value > 0
    /\ balance_of(Self, call.from) >= call.value
    /\ call.caller # call.from

\* C5 - as claimed: transfer_from with allowance_of(from, caller) >= value and
\* balance_of(from) >= value succeeds, moves value from `from` to `to` and
\* lowers allowance_of(from, caller) by exactly value.
C5_AsClaimed ==
    [][(/\ call'.op = "transfer_from"
        /\ allowance_of(Self, call'.from, call'.caller) >= call'.value
        /\ balance_of(Self, call'.from) >= call'.value)
            => (/\ result' = Ok
                /\ \A a \in AccountId :
                      balance_of(SelfNext, a) =
                          balance_of(Self, a)
                          - (IF a = call'.from THEN call'.value ELSE 0)
                          + (IF a = call'.to THEN call'.value ELSE 0)
                /\ allowance_of(SelfNext, call'.from, call'.caller) =
                      allowance_of(Self, call'.from, call'.caller) - call'.value)]_vars

\* C6 - allowance overwrite: an approve that follows an approve of the same
\* owner and spender leaves allowance_of(owner, spender) at the second value.
C6_ApproveOverwrites ==
    [][(/\ call.op = "approve" /\ call'.op = "approve"
        /\ call'.caller = call.caller /\ call'.to = call.to)
            => allowance_of(SelfNext, call'.caller, call'.to) = call'.value]_vars

\* C6 witness: the same pair was approved twice in a row, first with a
\* positive value, and the allowance is the second value.
C6_Witness ==
    /\ Len(events) >= 3 /\ call.op = "approve"
    /\ LET first  == events[Len(events) - 1]
           second == events[Len(events)]
       IN  /\ first.kind = "Approval" /\ second.kind = "Approval"
           /\ first.owner = second.owner /\ first.spender = second.spender
           /\ first.value > 0 /\ second.value > 0
           /\ first.value # second.value
           /\ second.owner = call.caller /\ second.spender = call.to
           /\ allowance_of(Self, second.owner, second.spender) = second.value

\* C7 - self-transfer: transfer(caller, caller, v) with v <= balance_of(caller)
\* succeeds, changes no balance, and emits one Transfer event from caller to
\* caller of value v.
C7_SelfTransfer ==
    [][(/\ call'.op = "transfer" /\ call'.to = call'.caller
        /\ call'.value <= balance_of(Self, call'.caller))
            => (/\ result' = Ok
                /\ \A a \in AccountId : balance_of(SelfNext, a) = balance_of(Self, a)
                /\ events' = Append(events, Transfer(Some(call'.caller),
                                                     Some(call'.caller),
                                                     call'.value)))]_vars

\* C7 witness: an account has transferred a positive amount to itself.
C7_Witness ==
    /\ call.op = "transfer" /\ call.to = call.caller /\ result = Ok
    /\ call.value > 0
    /\ events[Len(events)] = Transfer(Some(call.caller), Some(call.caller), call.value)

\* C8 - construction: the caller holds initial_supply, every other balance and
\* every allowance is 0, total_supply is initial_supply, and the log is the
\* one event Transfer{None, Some(caller), initial_supply}.
C8_Construction ==
    call.op = "new" =>
        /\ balance_of(Self, call.caller) = initial_supply
        /\ \A x \in AccountId \ {call.caller} : balance_of(Self, x) = 0
        /\ \A o \in AccountId, s \in AccountId : allowance_of(Self, o, s) = 0
        /\ total_supply_of(Self) = initial_supply
        /\ events = <<Transfer(None, Some(call.caller), initial_supply)>>

\* C8 witness: the contract has just been constructed with a positive supply.
C8_Witness ==
    call.op = "new" /\ initial_supply > 0 /\ call.value = initial_supply

\* C9 - total_supply is immutable: total_supply() is the constructor's
\* initial_supply in every state, and no call writes the field.
C9_TotalSupplyImmutable ==
    /\ [](total_supply_of(Self) = initial_supply)
    /\ [][total_supply' = total_supply]_vars

\* C9 witness: after a transfer, an approve and a transfer_from in some order,
\* at least two of them successful, the supply is still the positive initial one.
C9_Witness ==
    /\ Len(events) = MaxEvents
    /\ call.op # "new"
    /\ initial_supply > 0
    /\ total_supply_of(Self) = initial_supply

\* C10 - event discipline: a successful transfer or transfer_from appends the
\* one event Transfer{Some(source), Some(to), value}; an approve appends one
\* Approval event; a failing call appends nothing; the first event of the log
\* is the construction's Transfer with from = None and no other event has
\* from = None.
C10_EventDiscipline ==
    /\ [][/\ (call'.op \in {"transfer", "transfer_from"} /\ result' = Ok)
              => events' = Append(events, Transfer(Some(call'.from), Some(call'.to),
                                                   call'.value))
          /\ call'.op = "approve"
              => events' = Append(events, Approval(call'.caller, call'.to, call'.value))
          /\ result' # Ok => events' = events]_vars
    /\ [](/\ Len(events) >= 1
          /\ events[1].kind = "Transfer" /\ events[1].from = None
          /\ \A i \in 2 .. Len(events) :
                events[i].kind = "Transfer" => events[i].from # None)

\* C10 witness: the log holds the construction's event and two Transfer
\* events of later calls.
C10_Witness ==
    /\ Len(events) = 3
    /\ events[1].from = None
    /\ events[2].kind = "Transfer" /\ events[3].kind = "Transfer"
    /\ events[2].value > 0
    /\ call.op = "transfer" /\ result = Ok

\* C11 - as claimed: for every owner O and spender S, the total value moved
\* out of O's balance by S's successful transfer_from calls since O's most
\* recent approve(O, S, v) never exceeds v (and is 0 if O never approved S),
\* and allowance_of(O, S) equals v minus that total.
C11_AsClaimed ==
    \A o \in AccountId, s \in AccountId :
        /\ spent[<<o, s>>] <= granted[<<o, s>>]
        /\ allowance_of(Self, o, s) = granted[<<o, s>>] - spent[<<o, s>>]

\* C12 - authorization: on every step, the balance of an account X decreases
\* only by a transfer whose caller is X, or by a transfer_from with from = X
\* whose caller held allowance_of(X, caller) >= the decrease before the call;
\* and allowance_of(X, S) increases only by an approve whose caller is X.
C12_Authorization ==
    [][\A x \in AccountId :
          /\ balance_of(SelfNext, x) < balance_of(Self, x)
                => \/ call'.op = "transfer" /\ call'.caller = x
                   \/ /\ call'.op = "transfer_from" /\ call'.from = x
                      /\ allowance_of(Self, x, call'.caller) >=
                            balance_of(Self, x) - balance_of(SelfNext, x)
          /\ \A s \in AccountId :
                allowance_of(SelfNext, x, s) > allowance_of(Self, x, s)
                    => call'.op = "approve" /\ call'.caller = x /\ call'.to = s]_vars

\* C12 witness: an account that had granted an allowance has lowered its own
\* balance by a transfer to another account.
C12_Witness ==
    /\ call.op = "transfer" /\ result = Ok
    /\ call.value > 0 /\ call.to # call.caller
    /\ \E s \in AccountId : allowance_of(Self, call.caller, s) > 0

\* C13 - no wraparound on credit: whenever a transfer or transfer_from has
\* credited the recipient, the recipient's balance before the credit plus value
\* is at most total_supply, which is at most the largest Balance, and the
\* balance stored is that sum; no call panics on the addition or returns
\* anything but Ok, InsufficientBalance or InsufficientAllowance.
C13_NoWraparound ==
    /\ [][(call'.op \in {"transfer", "transfer_from"} /\ result' = Ok)
            => LET before == balance_of(Self, call'.to)
                             - (IF call'.from = call'.to THEN call'.value ELSE 0)
               IN  /\ before + call'.value <= total_supply_of(Self)
                   /\ total_supply_of(Self) <= MaxBalance
                   /\ balance_of(SelfNext, call'.to) = before + call'.value]_vars
    /\ [](result \in {Ok, InsufficientBalance, InsufficientAllowance})

\* C13 witness: a transfer has brought the recipient to the largest Balance.
C13_Witness ==
    /\ call.op = "transfer" /\ result = Ok
    /\ call.value > 0 /\ call.to # call.caller
    /\ balance_of(Self, call.to) = MaxBalance

\* C14 - error precedence in transfer_from: when both allowance_of(from,
\* caller) < value and balance_of(from) < value the call returns
\* InsufficientAllowance, and it returns InsufficientBalance only when the
\* allowance is sufficient.
C14_ErrorPrecedence ==
    [][call'.op = "transfer_from" =>
          /\ (/\ allowance_of(Self, call'.from, call'.caller) < call'.value
              /\ balance_of(Self, call'.from) < call'.value)
                => result' = InsufficientAllowance
          /\ result' = InsufficientBalance
                => allowance_of(Self, call'.from, call'.caller) >= call'.value]_vars

\* C14 witness: a transfer_from that neither the allowance nor the balance
\* covered has been refused for the allowance.
C14_Witness ==
    /\ call.op = "transfer_from" /\ result = InsufficientAllowance
    /\ allowance_of(Self, call.from, call.caller) < call.value
    /\ balance_of(Self, call.from) < call.value
    /\ allowance_of(Self, call.from, call.caller) > 0

\* C15 - frame conditions: transfer changes no allowance and no balance but
\* those of caller and to; approve changes no balance and no allowance but
\* that of (caller, spender); transfer_from changes no allowance but that of
\* (from, caller) and no balance but those of from and to.
C15_Frame ==
    [][/\ call'.op = "transfer" =>
            /\ allowances' = allowances
            /\ \A a \in AccountId \ {call'.caller, call'.to} :
                  balance_of(SelfNext, a) = balance_of(Self, a)
       /\ call'.op = "approve" =>
            /\ balances' = balances
            /\ \A o \in AccountId, s \in AccountId :
                  <<o, s>> # <<call'.caller, call'.to>>
                      => allowance_of(SelfNext, o, s) = allowance_of(Self, o, s)
       /\ call'.op = "transfer_from" =>
            /\ \A o \in AccountId, s \in AccountId :
                  <<o, s>> # <<call'.from, call'.caller>>
                      => allowance_of(SelfNext, o, s) = allowance_of(Self, o, s)
            /\ \A a \in AccountId \ {call'.from, call'.to} :
                  balance_of(SelfNext, a) = balance_of(Self, a)]_vars

\* C15 witness: a transfer_from has succeeded for a caller who is neither
\* from nor to and who holds a balance of its own.
C15_Witness ==
    /\ call.op = "transfer_from" /\ result = Ok
    /\ call.caller \notin {call.from, call.to}
    /\ balance_of(Self, call.caller) > 0

\* C16 - as claimed: balance_of(a) is the amount stored for a in the balance
\* map or 0, and the allowance query, the one transfer_from consults, is the
\* amount stored for (owner, spender) in the allowance map or 0.
C16_AsClaimed ==
    /\ \A a \in AccountId :
          balance_of(Self, a) = (IF a \in DOMAIN balances THEN balances[a] ELSE 0)
    /\ \A o \in AccountId, s \in AccountId :
          allowance(Self, o, s) =
              (IF <<o, s>> \in DOMAIN allowances THEN allowances[<<o, s>>] ELSE 0)

\* C17 - approve is total: approve(caller, spender, value) succeeds for every
\* caller, spender and value, whatever the balances, sets allowance_of(caller,
\* spender) to value and emits Approval{owner: caller, spender, value}.
C17_ApproveTotal ==
    [][call'.op = "approve" =>
          /\ result' = Ok
          /\ allowance_of(SelfNext, call'.caller, call'.to) = call'.value
          /\ Len(events') = Len(events) + 1
          /\ LET e == events'[Len(events')]
             IN  /\ e.kind = "Approval" /\ e.owner = call'.caller
                 /\ e.spender = call'.to /\ e.value = call'.value
          /\ \A i \in 1 .. Len(events) : events'[i] = events[i]]_vars

\* C17 witness: an account with balance 0 has approved itself for more than
\* the total supply.
C17_Witness ==
    /\ call.op = "approve" /\ result = Ok
    /\ call.to = call.caller
    /\ balance_of(Self, call.caller) = 0
    /\ call.value > total_supply_of(Self)
    /\ allowance_of(Self, call.caller, call.to) = call.value

\* C18 - ordering inside transfer_from: the steps performed are, in this
\* order, the debit of the source, the credit of the recipient, the Transfer
\* event and the write of the allowance (from, caller); while the checks run
\* and after a failed check none of them has been performed and the storage
\* and the log are as the call found them; a completed call has performed
\* none of the steps or all four, and all four when it returned Ok.
C18_Ordering ==
    call.op = "transfer_from" =>
        LET st     == locals.start
            stself == [total_supply |-> st.total_supply, balances |-> st.balances,
                       allowances |-> st.allowances]
            order  == <<"debit", "credit", "emit", "allowance">>
            n      == Len(locals.done)
        IN  /\ n <= 4 /\ locals.done = SubSeq(order, 1, n)
            /\ pc \in {"check_allowance", "check_balance"} => n = 0
            /\ result \in {InsufficientAllowance, InsufficientBalance} => n = 0
            /\ pc = "idle" => n \in {0, 4}
            /\ (pc = "idle" /\ result = Ok) => n = 4
            /\ pc = "idle" => result # "Running"
            /\ n = 0 => /\ balances = st.balances
                        /\ allowances = st.allowances
                        /\ events = st.events
            /\ n = 1 => /\ balances = insert(st.balances, call.from,
                                             balance_of(stself, call.from) - call.value)
                        /\ allowances = st.allowances
                        /\ events = st.events
            /\ n >= 2 => \E moved \in transfer_from_to(stself, call.from, call.to,
                                                        call.value) :
                            /\ moved.result = Ok
                            /\ balances = moved.self.balances
                            /\ events = st.events \o
                                            (IF n = 2 THEN <<>> ELSE moved.emitted)
            /\ n \in {2, 3} => allowances = st.allowances
            /\ n = 4 => /\ <<call.from, call.caller>> \in DOMAIN allowances
                        /\ \A p \in DOMAIN st.allowances :
                              p # <<call.from, call.caller>>
                                  => allowances[p] = st.allowances[p]

\* C18 witness: after a transfer had moved tokens to another account than the
\* deployer, a transfer_from by a third party has returned Ok after its four
\* steps, the last of which created the allowance entry.
C18_Witness ==
    /\ call.op = "transfer_from" /\ pc = "idle" /\ result = Ok
    /\ \E a \in AccountId \ Deployers : get_or_zero(locals.start.balances, a) > 0
    /\ locals.done = <<"debit", "credit", "emit", "allowance">>
    /\ call.caller \notin {call.from, call.to}
    /\ <<call.from, call.caller>> \notin DOMAIN locals.start.allowances
    /\ <<call.from, call.caller>> \in DOMAIN allowances
    /\ Len(events) = Len(locals.start.events) + 1

\* C19 - as claimed: transfer(caller, to, 0) and transfer_from(caller, from,
\* to, 0) succeed for every caller, from and to, leave every balance_of and
\* every allowance_of result unchanged, and emit one Transfer event of value 0.
C19_AsClaimed ==
    [][(call'.op \in {"transfer", "transfer_from"} /\ call'.value = 0)
          => /\ result' = Ok
             /\ \A a \in AccountId : balance_of(SelfNext, a) = balance_of(Self, a)
             /\ \A o \in AccountId, s \in AccountId :
                   allowance_of(SelfNext, o, s) = allowance_of(Self, o, s)
             /\ events' = Append(events, Transfer(Some(call'.from), Some(call'.to), 0))]_vars

====
